---- MODULE Spec2Model ----
(***************************************************************************)
(* Incremental-update core of the Glimmer VM: cached references over the   *)
(* tag/revision system, duplicate-key disambiguation for iterated          *)
(* collections, and the keyed list reconciler of ListBlockOpcode.          *)
(***************************************************************************)
EXTENDS Integers, Sequences, FiniteSets, TLC

(***************************************************************************)
(* Bounds of the model                                                     *)
(***************************************************************************)
NumCells == 2
MaxClock == 3
MaxCalls == 4
MaxDepth == 1
NumRaw == 2
MaxLen == 4
NumKeys == 3
MaxItems == 3
MaxOpcodes == 3
NumNodes == 3
MaxLeaks == 1
MaxFresh == 2
MaxLeftover == 2

Cells == 1..NumCells

(***************************************************************************)
(* Tag / revision system (@glimmer/validator)                              *)
(* A tag is the set of reactive cells it aggregates over; combine is set   *)
(* union and the constant tag aggregates over nothing.                     *)
(***************************************************************************)
CONSTANT_REV == 0
INITIAL == 1
CONSTANT_TAG == {}
NoRevision == -1

VARIABLES
  clock,        \* global revision counter
  cellRev,      \* revision of every reactive cell
  cellVal,      \* data held by every reactive cell
  trackStack,   \* open tracking frames, innermost first; a frame is a tag
  tag,          \* CachedReference.tag
  lastRevision, \* CachedReference.lastRevision (NoRevision is null)
  lastValue,    \* CachedReference.lastValue
  computeCount, \* number of compute() invocations so far
  calls,        \* number of value() calls so far
  lastCall,     \* what the most recent value() call did
  cache         \* the ReferenceCache made for the reference, and its last result

refVars == <<clock, cellRev, cellVal, trackStack, tag, lastRevision, lastValue,
             computeCount, calls, lastCall, cache>>

VARIABLES
  IDENTITIES,   \* module table: (raw key, count) -> the identity object stored there
  allocs,       \* number of identity objects ever created for (raw key, count)
  _iterator,    \* IterableReference._iterator (NoIterator is null)
  produced,     \* items returned by next() since the last compute()
  issued        \* every (raw key, occurrence, key) ever returned by next()

keyVars == <<IDENTITIES, allocs, _iterator, produced, issued>>

VARIABLES
  children,     \* ListBlockOpcode.children: the item opcodes in order
  opcodes,      \* the live ListItemOpcode objects, by identity
  opcodeMap,    \* ListBlockOpcode.opcodeMap: key -> item opcode
  marker,       \* ListBlockOpcode.marker is set
  dom,          \* child nodes of the parent element within the list's bounds
  nextOpcode,   \* identity given to the next ListItemOpcode created
  destroyed,    \* item opcodes on which destroy() was called
  deletedKeys,  \* keys whose item opcode was deleted at some time
  passOld,      \* the children (opcode and key) when evaluate was entered
  passNew,      \* the items that evaluate pulled from the iterator
  script,       \* what evaluate did, in order
  trace,        \* the list block when the loop of sync began and after each item
  syncError,    \* exception that ended evaluate, "none" if it returned
  phase         \* where the current update stands: idle, computed or evaluated
\* passOld, passNew, script, trace and syncError describe the evaluate of the
\* current update; they are cleared when the update is over.

listVars == <<children, opcodes, opcodeMap, marker, dom, nextOpcode, destroyed, deletedKeys,
              passOld, passNew, script, trace, syncError, phase>>

VARIABLES
  build,        \* which UpdatingVM of the repository runs: "array" or "linked"
  program,      \* the opcodes handed to execute and the static opcode tree under them
  failing,      \* the values whose item block throws while it is rendered
  frameStack,   \* UpdatingVM.frameStack, outermost frame first
  vmState,      \* idle, running, returned or thrown: where execute stands
  evalLog,      \* the opcodes whose evaluate was invoked by the current execute
  raised,       \* the exception an evaluate threw in the current execute
  vmError       \* the exception that left execute, "none" if it returned

vmVars == <<build, program, failing, frameStack, vmState, evalLog, raised, vmError>>

SetMax(S) == CHOOSE x \in S : \A y \in S : y <= x

valueForTag(t) == IF t = {} THEN CONSTANT_REV ELSE SetMax({cellRev[c] : c \in t})

validateTag(t, revision) == valueForTag(t) <= revision

combine(tags) == UNION tags

\* consumeTag: registers t in the innermost open frame; no-op outside tracking
consumeTag(stack, t) ==
  IF stack = <<>> THEN stack ELSE <<Head(stack) \cup t>> \o Tail(stack)

\* track(fn): opens a frame, runs fn (which consumes the tags in reads),
\* closes the frame and returns the combination of everything consumed.
\* The enclosing frames are restored untouched, also when fn throws.
track(stack, reads) ==
  LET inner == consumeTag(<<CONSTANT_TAG>> \o stack, combine({{c} : c \in reads}))
  IN  [tag |-> Head(inner), stack |-> Tail(inner)]

(***************************************************************************)
(* CachedReference (reference.ts)                                          *)
(***************************************************************************)
NullValue == [data |-> <<>>, id |-> 0]
NoCall == [kind |-> "none", ret |-> NullValue, computes |-> 0, consumed |-> <<>>]

\* The reference's compute(): reads cell 1 and, when it holds 1, also cell 2
ComputeReads == IF cellVal[1] = 1 THEN {1, 2} ELSE {1}
ComputeData == <<cellVal[1], IF cellVal[1] = 1 THEN cellVal[2] ELSE 0>>

NeedsCompute_Always == TRUE

\* line 28: the condition under which value() recomputes
NeedsCompute == lastRevision = NoRevision \/ ~validateTag(tag, lastRevision)

ValueThrow_Poisoned ==
  /\ trackStack' = track(trackStack, ComputeReads).stack
  /\ computeCount' = computeCount + 1
  /\ lastCall' = [kind |-> "throw", ret |-> NullValue, computes |-> 1, consumed |-> <<>>]
  /\ lastRevision' = valueForTag(tag)
  /\ UNCHANGED <<tag, lastValue>>

\* lines 29-32 when compute() throws: the exception leaves track() and value()
\* before any field is assigned
ValueThrow ==
  /\ trackStack' = track(trackStack, ComputeReads).stack
  /\ computeCount' = computeCount + 1
  /\ lastCall' = [kind |-> "throw", ret |-> NullValue, computes |-> 1, consumed |-> <<>>]
  /\ UNCHANGED <<tag, lastRevision, lastValue>>

ValueMiss_StaleTag ==
  LET t == track(trackStack, ComputeReads)
      fresh == [data |-> ComputeData, id |-> computeCount + 1]
  IN  /\ lastValue' = fresh
      /\ tag' = tag
      /\ lastRevision' = valueForTag(t.tag)
      /\ trackStack' = consumeTag(t.stack, t.tag)
      /\ computeCount' = computeCount + 1
      /\ lastCall' = [kind |-> "miss", ret |-> fresh, computes |-> 1, consumed |-> <<t.tag>>]

\* lines 29-32, 37, 39 when compute() returns
ValueMiss ==
  LET t == track(trackStack, ComputeReads)
      fresh == [data |-> ComputeData, id |-> computeCount + 1]
  IN  /\ lastValue' = fresh
      /\ tag' = t.tag
      /\ lastRevision' = valueForTag(t.tag)
      /\ trackStack' = consumeTag(t.stack, t.tag)
      /\ computeCount' = computeCount + 1
      /\ lastCall' = [kind |-> "miss", ret |-> fresh, computes |-> 1, consumed |-> <<t.tag>>]

ValueHit_NoConsume ==
  /\ lastCall' = [kind |-> "hit", ret |-> lastValue, computes |-> 0, consumed |-> <<>>]
  /\ UNCHANGED <<trackStack, tag, lastRevision, lastValue, computeCount>>

\* lines 34, 37, 39
ValueHit ==
  /\ trackStack' = consumeTag(trackStack, tag)
  /\ lastCall' = [kind |-> "hit", ret |-> lastValue, computes |-> 0, consumed |-> <<tag>>]
  /\ UNCHANGED <<tag, lastRevision, lastValue, computeCount>>

\* lines 23-40: one call of value()
ValueCall ==
  /\ calls < MaxCalls
  /\ calls' = calls + 1
  /\ IF NeedsCompute
     THEN \E throws \in BOOLEAN : IF throws THEN ValueThrow ELSE ValueMiss
     ELSE ValueHit

value ==
  /\ ValueCall
  /\ UNCHANGED <<clock, cellRev, cellVal, cache, keyVars, listVars, vmVars>>

(***************************************************************************)
(* ReferenceCache (reference.ts)                                           *)
(* cache.lastValue is the field; ret is what the last revalidate returned, *)
(* observed the value that the last call which returned read from the      *)
(* reference, n the number of revalidate calls.                            *)
(***************************************************************************)
\* line 75: a symbol, different from every value
NOT_MODIFIED == [data |-> <<>>, id |-> -1]

\* lines 77-79
isModified(v) == v # NOT_MODIFIED

NoCache == [made |-> FALSE, lastValue |-> NullValue, ret |-> NullValue, observed |-> NullValue, n |-> 0]

\* lines 55-58, with the value that reference.value() returned
ReferenceCache(v) ==
  [made |-> TRUE, lastValue |-> v, ret |-> NullValue, observed |-> v, n |-> 0]

revalidate_NoStore(c, currentValue) ==
  IF currentValue = c.lastValue
  THEN [c EXCEPT !.ret = NOT_MODIFIED, !.observed = currentValue, !.n = @ + 1]
  ELSE [c EXCEPT !.ret = currentValue, !.observed = currentValue, !.n = @ + 1]

\* lines 60-68, with the value that reference.value() returned at line 62
revalidate(c, currentValue) ==
  IF currentValue = c.lastValue
  THEN [c EXCEPT !.ret = NOT_MODIFIED, !.observed = currentValue, !.n = @ + 1]
  ELSE [c EXCEPT !.lastValue = currentValue, !.ret = currentValue,
                 !.observed = currentValue, !.n = @ + 1]

\* new ReferenceCache(reference); when value() throws no cache is made
NewReferenceCache ==
  /\ ~cache.made
  /\ ValueCall
  /\ cache' = IF lastCall'.kind = "throw" THEN cache ELSE ReferenceCache(lastCall'.ret)
  /\ UNCHANGED <<clock, cellRev, cellVal, keyVars, listVars, vmVars>>

\* cache.revalidate(); when value() throws the exception leaves revalidate
\* at line 62
ReferenceCache_revalidate ==
  /\ cache.made
  /\ ValueCall
  /\ cache' = IF lastCall'.kind = "throw"
              THEN [cache EXCEPT !.n = @ + 1]
              ELSE revalidate(cache, lastCall'.ret)
  /\ UNCHANGED <<clock, cellRev, cellVal, keyVars, listVars, vmVars>>

\* Writing a reactive cell bumps the global revision and the cell's own
WriteCell ==
  /\ clock < MaxClock
  /\ \E c \in Cells, v \in {0, 1} :
       /\ clock' = clock + 1
       /\ cellRev' = [cellRev EXCEPT ![c] = clock + 1]
       /\ cellVal' = [cellVal EXCEPT ![c] = v]
  /\ UNCHANGED <<trackStack, tag, lastRevision, lastValue, computeCount, calls, lastCall, cache, keyVars, listVars, vmVars>>

\* An enclosing consumer opens a tracking frame around later value() calls
BeginTrackFrame ==
  /\ Len(trackStack) < MaxDepth
  /\ trackStack' = <<CONSTANT_TAG>> \o trackStack
  /\ UNCHANGED <<clock, cellRev, cellVal, tag, lastRevision, lastValue, computeCount, calls, lastCall, cache, keyVars, listVars, vmVars>>

EndTrackFrame ==
  /\ trackStack # <<>>
  /\ trackStack' = Tail(trackStack)
  /\ UNCHANGED <<clock, cellRev, cellVal, tag, lastRevision, lastValue, computeCount, calls, lastCall, cache, keyVars, listVars, vmVars>>

RefInit ==
  /\ clock = INITIAL
  /\ cellRev = [c \in Cells |-> INITIAL]
  /\ cellVal \in [Cells -> {0, 1}]
  /\ trackStack = <<>>
  /\ tag = CONSTANT_TAG
  /\ lastRevision = NoRevision
  /\ lastValue = NullValue
  /\ computeCount = 0
  /\ calls = 0
  /\ lastCall = NoCall
  /\ cache = NoCache

(***************************************************************************)
(* Keys of iterated items (iterable-impl: uniqueKeyFor, ArrayIterator,     *)
(* IterableReference)                                                      *)
(* Array elements are non-null values keyed by identity.  A key is either  *)
(* the raw key itself or an identity object {value, count}; serial tells   *)
(* apart two identity objects created for the same value and count.        *)
(***************************************************************************)
RawKeys == 1..NumRaw

Arrays(S, n) == UNION {[1..m -> S] : m \in 0..n}

RawKey(v) == [type |-> "key", value |-> v, count |-> 0, serial |-> 0]
IdentityObject(v, c, n) == [type |-> "identity", value |-> v, count |-> c, serial |-> n]

\* IDENTITY keyFor of a non-null item: the item itself
IDENTITY(item, index) == RawKey(item)

MapGet(m, k, default) == IF k \in DOMAIN m THEN m[k] ELSE default

identityForNthOccurence_NoTable(ID, al, v, count) ==
  LET n == MapGet(al, <<v, count>>, 0) + 1
  IN  [identity |-> IdentityObject(v, count, n),
       IDENTITIES |-> ID,
       allocs |-> (<<v, count>> :> n) @@ al]

\* lines 192-208: the identity stored for (value, count), created on first use
identityForNthOccurence(ID, al, v, count) ==
  IF <<v, count>> \in DOMAIN ID
  THEN [identity |-> ID[<<v, count>>], IDENTITIES |-> ID, allocs |-> al]
  ELSE LET n == MapGet(al, <<v, count>>, 0) + 1
           identity == IdentityObject(v, count, n)
       IN  [identity |-> identity,
            IDENTITIES |-> (<<v, count>> :> identity) @@ ID,
            allocs |-> (<<v, count>> :> n) @@ al]

uniqueKeyFor_NoCount(seen, ID, al, item, memo) ==
  LET key == IDENTITY(item, memo)
  IN  [key |-> key, seen |-> seen, IDENTITIES |-> ID, allocs |-> al]

\* lines 228-239: the closure returned by uniqueKeyFor(IDENTITY); seen is
\* the closure's occurrence table
uniqueKeyFor(seen, ID, al, item, memo) ==
  LET key == IDENTITY(item, memo)
      count == MapGet(seen, key.value, 0)
      seen2 == (key.value :> count + 1) @@ seen
  IN  IF count = 0
      THEN [key |-> key, seen |-> seen2, IDENTITIES |-> ID, allocs |-> al]
      ELSE LET r == identityForNthOccurence(ID, al, key.value, count)
           IN  [key |-> r.identity, seen |-> seen2,
                IDENTITIES |-> r.IDENTITIES, allocs |-> r.allocs]

EmptyMap == [x \in {} |-> 0]
NoIterator == [iterator |-> <<>>, current |-> "null", pos |-> 0, seen |-> EmptyMap]
NoItem == [key |-> RawKey(0), value |-> 0, memo |-> -1]

\* lines 325-331, with the keyFor made by makeKeyFor at line 273
ArrayIterator(arr) ==
  [iterator |-> arr,
   current |-> IF Len(arr) = 0 THEN "empty" ELSE "first",
   pos |-> 0,
   seen |-> EmptyMap]

\* lines 333-335
ArrayIterator_isEmpty(it) == it.current = "empty"

ArrayIterator_next_StalePos(it, ID, al) ==
  LET exhausted == it.current # "first" /\ it.pos >= Len(it.iterator) - 1
      pos == IF it.current = "first" THEN it.pos ELSE it.pos + 1
  IN  IF exhausted
      THEN [item |-> NoItem, it |-> it, IDENTITIES |-> ID, allocs |-> al]
      ELSE LET v == it.iterator[it.pos + 1]
               k == uniqueKeyFor(it.seen, ID, al, v, pos)
           IN  [item |-> [key |-> k.key, value |-> v, memo |-> pos],
                it |-> [it EXCEPT !.current = "progress", !.pos = pos, !.seen = k.seen],
                IDENTITIES |-> k.IDENTITIES,
                allocs |-> k.allocs]

\* lines 337-356; item = NoItem stands for the null result
ArrayIterator_next(it, ID, al) ==
  LET exhausted == it.current # "first" /\ it.pos >= Len(it.iterator) - 1
      pos == IF it.current = "first" THEN it.pos ELSE it.pos + 1
  IN  IF exhausted
      THEN [item |-> NoItem, it |-> it, IDENTITIES |-> ID, allocs |-> al]
      ELSE LET v == it.iterator[pos + 1]
               k == uniqueKeyFor(it.seen, ID, al, v, pos)
           IN  [item |-> [key |-> k.key, value |-> v, memo |-> pos],
                it |-> [it EXCEPT !.current = "progress", !.pos = pos, !.seen = k.seen],
                IDENTITIES |-> k.IDENTITIES,
                allocs |-> k.allocs]

IterableReference_next_KeepIterator(it, ID, al) == ArrayIterator_next(it, ID, al)

\* lines 254-262
IterableReference_next(it, ID, al) ==
  LET r == ArrayIterator_next(it, ID, al)
  IN  IF r.item = NoItem THEN [r EXCEPT !.it = NoIterator] ELSE r

\* lines 264-266
isDone == _iterator = NoIterator

\* lines 268-288 for an array-valued parent reference
compute(arr) ==
  /\ _iterator' = ArrayIterator(arr)
  /\ produced' = <<>>
  /\ UNCHANGED <<IDENTITIES, allocs, issued>>

ComputeKeys ==
  /\ \E arr \in Arrays(RawKeys, MaxLen) : compute(arr)
  /\ UNCHANGED <<refVars, listVars, vmVars>>

\* the occurrence slot of an item that follows the items in earlier: how
\* many of them hold the same value
Occurrence(earlier, v) == Cardinality({j \in 1..Len(earlier) : earlier[j].value = v})
Slot(earlier, item) ==
  [value |-> item.value, n |-> Occurrence(earlier, item.value), key |-> item.key]

\* a caller pulls the next item of the iteration
next ==
  /\ ~isDone
  /\ \E r \in {IterableReference_next(_iterator, IDENTITIES, allocs)} :
         /\ _iterator' = r.it
         /\ IDENTITIES' = r.IDENTITIES
         /\ allocs' = r.allocs
         /\ produced' = IF r.item = NoItem THEN produced ELSE Append(produced, r.item)
         /\ issued' = IF r.item = NoItem THEN issued ELSE issued \cup {Slot(produced, r.item)}
  /\ UNCHANGED <<refVars, listVars, vmVars>>

KeysInit ==
  /\ IDENTITIES = EmptyMap
  /\ allocs = EmptyMap
  /\ _iterator = NoIterator
  /\ produced = <<>>
  /\ issued = {}

(***************************************************************************)
(* ListItemOpcode and ListBlockOpcode (update.ts)                          *)
(* An item opcode's rendered region is one node of dom, named by the       *)
(* opcode; MarkerNode is the comment that evaluate inserts after the       *)
(* list's last node.                                                       *)
(***************************************************************************)
Undefined == 0
MarkerNode == 0
StaleMarkerNode == -1

\* children[i] for a 0-based index i
At(seq, i) == IF i + 1 \in 1..Len(seq) THEN seq[i + 1] ELSE Undefined

\* lines 574-586: a new ListItemOpcode
ListItemOpcode(key, memo, val) ==
  [key |-> key, retained |-> FALSE, seen |-> FALSE, memo |-> memo, value |-> val]

\* an opcode object seen as a value of unknown type
OpcodeObject(opcode) == [type |-> "opcode", value |-> opcode, count |-> 0, serial |-> 0]

Remove(seq, x) == SelectSeq(seq, LAMBDA y : y # x)

IndexOf(seq, x) == CHOOSE i \in 1..Len(seq) : seq[i] = x

\* Node.insertBefore(node, reference)
InsertBefore(seq, node, reference) ==
  LET i == IndexOf(seq, reference)
  IN  SubSeq(seq, 1, i - 1) \o <<node>> \o SubSeq(seq, i, Len(seq))

\* moveBounds(opcode, reference): a region moved before its own first node
\* stays where it is
MoveBefore(seq, node, reference) ==
  IF node = reference THEN seq ELSE InsertBefore(Remove(seq, node), node, reference)

NextSibling_AlwaysMarker(before) == MarkerNode

\* lines 707, 731: the sibling a region is placed before
NextSibling(before) == IF before = Undefined THEN MarkerNode ELSE before

NoKey == RawKey(0)

Entry(op, key, opcode, before) == [op |-> op, key |-> key, opcode |-> opcode, before |-> before]

retainItem_NoPush(st, opcode, item) ==
  [st EXCEPT !.opcodes[opcode].memo = item.memo,
             !.opcodes[opcode].value = item.value,
             !.opcodes[opcode].retained = TRUE,
             !.script = Append(@, Entry("retain", item.key, opcode, Undefined))]

\* lines 696-702
retainItem(st, opcode, item) ==
  [st EXCEPT !.opcodes[opcode].memo = item.memo,
             !.opcodes[opcode].value = item.value,
             !.opcodes[opcode].retained = TRUE,
             !.children = Append(@, opcode),
             !.script = Append(@, Entry("retain", item.key, opcode, Undefined))]

insertItem_Recycle(st, item, before) ==
  LET opcode == IF st.destroyed = {} THEN st.nextOpcode ELSE SetMax(st.destroyed)
  IN  [st EXCEPT !.nextOpcode = IF opcode = @ THEN @ + 1 ELSE @,
                 !.opcodes = (opcode :> ListItemOpcode(item.key, item.memo, item.value)) @@ @,
                 !.dom = InsertBefore(@, opcode, NextSibling(before)),
                 !.children = Append(@, opcode),
                 !.opcodeMap = (item.key :> opcode) @@ @,
                 !.script = Append(@, Entry("insert", item.key, opcode, NextSibling(before))),
                 !.error = IF item.value \in st.failing THEN "RenderError" ELSE @]

insertItem_NoRegister(st, item, before) ==
  LET opcode == st.nextOpcode
  IN  [st EXCEPT !.nextOpcode = @ + 1,
                 !.opcodes = (opcode :> ListItemOpcode(item.key, item.memo, item.value)) @@ @,
                 !.dom = InsertBefore(@, opcode, NextSibling(before)),
                 !.children = Append(@, opcode),
                 !.script = Append(@, Entry("insert", item.key, opcode, NextSibling(before))),
                 !.error = IF item.value \in st.failing THEN "RenderError" ELSE @]

\* lines 704-724: the callback at lines 717-722 creates and registers the
\* opcode, then vm.execute renders the item's block, which may throw
insertItem(st, item, before) ==
  LET opcode == st.nextOpcode
  IN  [st EXCEPT !.nextOpcode = @ + 1,
                 !.opcodes = (opcode :> ListItemOpcode(item.key, item.memo, item.value)) @@ @,
                 !.dom = InsertBefore(@, opcode, NextSibling(before)),
                 !.children = Append(@, opcode),
                 !.opcodeMap = (item.key :> opcode) @@ @,
                 !.script = Append(@, Entry("insert", item.key, opcode, NextSibling(before))),
                 !.error = IF item.value \in st.failing THEN "RenderError" ELSE @]

moveItem_NotRetained(st, opcode, item, before) ==
  [st EXCEPT !.opcodes[opcode].memo = item.memo,
             !.opcodes[opcode].value = item.value,
             !.dom = MoveBefore(@, opcode, NextSibling(before)),
             !.children = Append(@, opcode),
             !.script = Append(@, Entry("move", item.key, opcode, NextSibling(before)))]

moveItem_StaleCells(st, opcode, item, before) ==
  [st EXCEPT !.opcodes[opcode].retained = TRUE,
             !.dom = MoveBefore(@, opcode, NextSibling(before)),
             !.children = Append(@, opcode),
             !.script = Append(@, Entry("move", item.key, opcode, NextSibling(before)))]

\* lines 726-736
moveItem(st, opcode, item, before) ==
  [st EXCEPT !.opcodes[opcode].memo = item.memo,
             !.opcodes[opcode].value = item.value,
             !.opcodes[opcode].retained = TRUE,
             !.dom = MoveBefore(@, opcode, NextSibling(before)),
             !.children = Append(@, opcode),
             !.script = Append(@, Entry("move", item.key, opcode, NextSibling(before)))]

deleteItem_KeepEntry(st, opcode) ==
  LET key == st.opcodes[opcode].key
  IN  [st EXCEPT !.destroyed = @ \cup {opcode},
                 !.deletedKeys = @ \cup {key},
                 !.dom = Remove(@, opcode),
                 !.script = Append(@, Entry("delete", key, opcode, Undefined))]

\* lines 738-742
deleteItem(st, opcode) ==
  LET key == st.opcodes[opcode].key
  IN  [st EXCEPT !.destroyed = @ \cup {opcode},
                 !.deletedKeys = @ \cup {key},
                 !.dom = Remove(@, opcode),
                 !.opcodeMap = [k \in DOMAIN @ \ {key} |-> @[k]],
                 !.script = Append(@, Entry("delete", key, opcode, Undefined))]

reset_KeepSeen(st, opcode) == [st EXCEPT !.opcodes[opcode].retained = FALSE]

\* lines 598-601
reset(st, opcode) ==
  [st EXCEPT !.opcodes[opcode].retained = FALSE, !.opcodes[opcode].seen = FALSE]

\* the fields of the list block and of its item opcodes, and the cursor of sync
Snapshot(st) ==
  [children |-> st.children, opcodes |-> st.opcodes, opcodeMap |-> st.opcodeMap,
   dom |-> st.dom, nextOpcode |-> st.nextOpcode, destroyed |-> st.destroyed,
   currentOpcodeIndex |-> st.currentOpcodeIndex]

Logged(st) == [st EXCEPT !.trace = Append(@, Snapshot(st))]

\* line 661: the condition of the first branch
CursorMatches(opcode, item) == opcode # Undefined /\ OpcodeObject(opcode) = item.key

RECURSIVE ScanForward_NoSeen(_, _, _)
ScanForward_NoSeen(st, old, key) ==
  LET opcode == At(old, st.currentOpcodeIndex)
  IN  IF opcode = Undefined THEN [st EXCEPT !.error = "TypeError"]
      ELSE IF st.opcodes[opcode].key = key THEN st
      ELSE ScanForward_NoSeen([st EXCEPT !.currentOpcodeIndex = @ + 1,
                                         !.script = Append(@, Entry("skip", st.opcodes[opcode].key, opcode, Undefined))],
                              old, key)

RECURSIVE ScanForward_SkipTwo(_, _, _)
ScanForward_SkipTwo(st, old, key) ==
  LET opcode == At(old, st.currentOpcodeIndex)
  IN  IF opcode = Undefined THEN [st EXCEPT !.error = "TypeError"]
      ELSE IF st.opcodes[opcode].key = key THEN st
      ELSE ScanForward_SkipTwo([st EXCEPT !.opcodes[opcode].seen = TRUE,
                                          !.currentOpcodeIndex = @ + 2,
                                          !.script = Append(@, Entry("skip", st.opcodes[opcode].key, opcode, Undefined))],
                               old, key)

\* lines 670-673: skip old opcodes until one has the key; reading .key of
\* undefined throws a TypeError
RECURSIVE ScanForward(_, _, _)
ScanForward(st, old, key) ==
  LET opcode == At(old, st.currentOpcodeIndex)
  IN  IF opcode = Undefined THEN [st EXCEPT !.error = "TypeError"]
      ELSE IF st.opcodes[opcode].key = key THEN st
      ELSE ScanForward([st EXCEPT !.opcodes[opcode].seen = TRUE,
                                  !.currentOpcodeIndex = @ + 1,
                                  !.script = Append(@, Entry("skip", st.opcodes[opcode].key, opcode, Undefined))],
                       old, key)

\* lines 658-680: the body of the while loop for one item
SyncItem(st, old, item) ==
  LET opcode == At(old, st.currentOpcodeIndex)
      key == item.key
  IN  IF CursorMatches(opcode, item)
      THEN [retainItem(st, opcode, item) EXCEPT !.currentOpcodeIndex = @ + 1]
      ELSE IF key \in DOMAIN st.opcodeMap
      THEN LET itemOpcode == st.opcodeMap[key]
           IN  IF st.opcodes[itemOpcode].seen
               THEN moveItem(st, itemOpcode, item, opcode)
               ELSE LET sc == ScanForward(st, old, key)
                    IN  IF sc.error # "none" THEN sc
                        ELSE [retainItem(sc, At(old, sc.currentOpcodeIndex), item)
                                EXCEPT !.currentOpcodeIndex = @ + 1]
      ELSE insertItem(st, item, opcode)

RECURSIVE SyncItems(_, _), SyncPulled(_, _, _), SyncRest(_, _)

\* lines 652, 657-683: pull items until next() returns null
SyncItems(st, old) ==
  SyncPulled(st, old, IterableReference_next(st.it, st.IDENTITIES, st.allocs))

\* lines 657-658: r is what iterableRef.next() returned; null ends the loop
SyncPulled(st, old, r) ==
  IF r.item = NoItem
  THEN [st EXCEPT !.it = r.it, !.IDENTITIES = r.IDENTITIES, !.allocs = r.allocs]
  ELSE SyncRest(Logged(SyncItem([st EXCEPT !.it = r.it, !.IDENTITIES = r.IDENTITIES,
                                           !.allocs = r.allocs, !.passNew = Append(@, r.item)],
                                old, r.item)),
                old)

\* line 657: the loop goes on unless the body threw
SyncRest(done, old) == IF done.error # "none" THEN done ELSE SyncItems(done, old)

\* lines 685-693
RECURSIVE Sweep(_, _, _)
Sweep(st, old, i) ==
  IF i >= Len(old) THEN st
  ELSE LET opcode == At(old, i)
       IN  Sweep(IF st.opcodes[opcode].retained = FALSE
                 THEN deleteItem(st, opcode)
                 ELSE reset(st, opcode),
                 old, i + 1)

\* lines 685-693: the sweep runs when the loop ended without an exception
SweepAll(looped, old) == IF looped.error # "none" THEN looped ELSE Sweep(looped, old, 0)

\* lines 649-694
sync(st) ==
  SweepAll(SyncItems(Logged([st EXCEPT !.children = <<>>, !.currentOpcodeIndex = 0]), st.children),
           st.children)

\* the objects that no opcode, map entry or old child refers to any more
Collect(st) ==
  LET live == {st.children[i] : i \in 1..Len(st.children)}
                \cup {st.opcodeMap[k] : k \in DOMAIN st.opcodeMap}
  IN  [st EXCEPT !.opcodes = [o \in live |-> @[o]]]

\* a marker that an earlier evaluate left behind is no longer this.marker
Leak(nodes) == [i \in 1..Len(nodes) |-> IF nodes[i] = MarkerNode THEN StaleMarkerNode ELSE nodes[i]]

\* lines 640-642: reached only when sync returned
RemoveMarker(synced) ==
  IF synced.error # "none" THEN synced
  ELSE [synced EXCEPT !.dom = Remove(@, MarkerNode),
                      !.marker = FALSE,
                      !.script = Append(@, Entry("unmark", NoKey, Undefined, Undefined))]

\* lines 627-647, up to the point where the children are handed to the VM
ListBlockOpcode_evaluate(st) ==
  IF st.it # NoIterator
  THEN RemoveMarker(sync([st EXCEPT !.marker = TRUE,
                                    !.dom = Append(Leak(@), MarkerNode),
                                    !.script = Append(@, Entry("marker", NoKey, Undefined, Undefined))]))
  ELSE st

(***************************************************************************)
(* UpdatingVM and UpdatingVMFrame                                          *)
(* Opcodes are named by numbers: item opcodes by their identity, the list  *)
(* block by ListNode, the opcodes of a static tree by Nodes.               *)
(***************************************************************************)
NoHandler == 0
ListNode == 100
Caller == 200
Nodes == 101..(100 + NumNodes)

\* lines 745-748
UpdatingVMFrame(ops, exceptionHandler) ==
  [ops |-> ops, current |-> 0, exceptionHandler |-> exceptionHandler]

nextStatement_SkipLast(f) ==
  [opcode |-> IF f.current + 1 >= Len(f.ops) THEN Undefined ELSE At(f.ops, f.current),
   frame |-> [f EXCEPT !.current = @ + 1]]

\* lines 754-756: this.ops[this.current++]
nextStatement(f) ==
  [opcode |-> At(f.ops, f.current), frame |-> [f EXCEPT !.current = @ + 1]]

try_Bottom(stack, ops, handler) == <<UpdatingVMFrame(ops, handler)>> \o stack

\* lines 476-478
try(stack, ops, handler) == Append(stack, UpdatingVMFrame(ops, handler))

\* lines 468-470: the frame on top of the stack
frame(stack) == stack[Len(stack)]

\* Stack.pop
pop(stack) == SubSeq(stack, 1, Len(stack) - 1)

\* resetTracking of @glimmer/validator: every open tracking frame is dropped
resetTracking == <<>>

\* opcode.type; an item opcode is a ListItemOpcode, which is a TryOpcode
KindOf(opcode) ==
  IF opcode = ListNode THEN "list-block"
  ELSE IF opcode \in DOMAIN program.kind THEN program.kind[opcode]
  ELSE "try"

\* BlockOpcode.children of a block other than the list block; a
\* ListItemOpcode is constructed with no children (line 585)
ChildrenOf(opcode) ==
  IF opcode \in DOMAIN program.kids THEN program.kids[opcode] ELSE <<>>

Ascending(S) ==
  CHOOSE seq \in [1..Cardinality(S) -> S] : \A i, j \in 1..Cardinality(S) : i < j => seq[i] < seq[j]

\* the static opcode trees: parent[n] is the block that holds n, 0 for the
\* opcodes handed to execute; only blocks have children
Parents == {par \in [Nodes -> {0} \cup Nodes] : \A n \in Nodes : par[n] < n}
Kinds == [Nodes -> {"op", "block", "try"}]
NoOpcode == 0

\* LinkedList: the neighbours of the opcode at position i of a list
PrevOf(seq, i) == IF i = 1 THEN NoOpcode ELSE seq[i - 1]
NextOf(seq, i) == IF i = Len(seq) THEN NoOpcode ELSE seq[i + 1]

\* the child sequence that holds n
Siblings(par, n) == Ascending({m \in Nodes : par[m] = par[n]})

\* prev and next are the links of the linked build's opcodes (reference.ts
\* lines 197-198); destroyed holds the opcodes whose resources were released
Program(par, kind) ==
  [root |-> Ascending({n \in Nodes : par[n] = 0}),
   kind |-> kind,
   kids |-> [m \in Nodes |-> Ascending({n \in Nodes : par[n] = m})],
   prev |-> [n \in Nodes |-> PrevOf(Siblings(par, n), IndexOf(Siblings(par, n), n))],
   next |-> [n \in Nodes |-> NextOf(Siblings(par, n), IndexOf(Siblings(par, n), n))],
   destroyed |-> {}]
Programs ==
  {Program(pk[1], pk[2]) :
     pk \in {x \in Parents \X Kinds : \A n \in Nodes : x[1][n] = 0 \/ x[2][x[1][n]] # "op"}}

\* execute is given the list block alone
ListProgram ==
  [root |-> <<ListNode>>, kind |-> EmptyMap, kids |-> EmptyMap,
   prev |-> EmptyMap, next |-> EmptyMap, destroyed |-> {}]

Running == vmState = "running" /\ frameStack # <<>>

\* line 452
Fetched == nextStatement(frame(frameStack))
Advanced == [frameStack EXCEPT ![Len(frameStack)] = Fetched.frame]

RefQuiet ==
  UNCHANGED <<clock, cellRev, cellVal, tag, lastRevision, lastValue, computeCount, calls, lastCall, cache>>
ListQuiet ==
  UNCHANGED <<children, opcodes, opcodeMap, marker, dom, nextOpcode, destroyed, deletedKeys>>

\* the record of the list block's evaluate lasts until the VM's next step
ForgetPass ==
  /\ phase' = IF phase = "evaluated" THEN "idle" ELSE phase
  /\ passOld' = <<>>
  /\ passNew' = <<>>
  /\ script' = <<>>
  /\ trace' = <<>>
  /\ syncError' = "none"

\* lines 461-465 of the array build; the linked build (reference.ts lines
\* 136-153) has no try statement and the exception leaves execute as it is
Catch(e, tracking) ==
  /\ trackStack' = IF build = "array" THEN resetTracking ELSE tracking
  /\ vmError' = e
  /\ vmState' = "thrown"

\* the markers that evaluates cut short by an exception left in the DOM
Leaks == Cardinality({i \in 1..Len(dom) : dom[i] \in {MarkerNode, StaleMarkerNode}})

\* lines 443-446
execute ==
  /\ vmState = "idle"
  /\ Leaks < MaxLeaks
  /\ frameStack' = try(frameStack, program.root, Caller)
  /\ vmState' = "running"
  /\ UNCHANGED <<refVars, keyVars, listVars, build, program, failing, evalLog, raised, vmError>>

\* lines 443-446, called again on the UpdatingVM whose execute has returned
\* or thrown: the frame stack is the one the earlier call left
executeAgain ==
  /\ vmState \in {"returned", "thrown"}
  /\ Len(frameStack) <= MaxLeftover
  /\ frameStack' = try(frameStack, program.root, Caller)
  /\ vmState' = "running"
  /\ evalLog' = <<>>
  /\ raised' = "none"
  /\ vmError' = "none"
  /\ ForgetPass
  /\ ListQuiet
  /\ UNCHANGED <<refVars, keyVars, build, program, failing>>

\* line 450
Return ==
  /\ vmState = "running"
  /\ frameStack = <<>>
  /\ vmState' = "returned"
  /\ ForgetPass
  /\ ListQuiet
  /\ UNCHANGED <<refVars, keyVars, build, program, failing, frameStack, evalLog, raised, vmError>>

\* lines 452-457
PopFrame ==
  /\ Running
  /\ Fetched.opcode = Undefined
  /\ frameStack' = pop(Advanced)
  /\ ForgetPass
  /\ ListQuiet
  /\ UNCHANGED <<refVars, keyVars, build, program, failing, vmState, evalLog, raised, vmError>>

\* what the evaluate of an opcode that is not a block may do: return, throw,
\* or throw between opening and closing a tracking frame
Outcomes == {"ok", "throw", "throwInFrame"}

\* lines 452-465 for an opcode that is not a block
EvaluateOpcode ==
  /\ Running
  /\ Fetched.opcode # Undefined
  /\ KindOf(Fetched.opcode) = "op"
  /\ evalLog' = Append(evalLog, Fetched.opcode)
  /\ frameStack' = Advanced
  /\ \E outcome \in Outcomes :
       IF outcome = "ok"
       THEN UNCHANGED <<trackStack, vmState, raised, vmError>>
       ELSE /\ outcome = "throwInFrame" => Len(trackStack) < MaxDepth
            /\ raised' = "Error"
            /\ Catch("Error", IF outcome = "throwInFrame"
                              THEN <<CONSTANT_TAG>> \o trackStack ELSE trackStack)
  /\ RefQuiet
  /\ ForgetPass
  /\ ListQuiet
  /\ UNCHANGED <<keyVars, build, program, failing>>

BlockOpcode_evaluate_NoChildren(stack, kids) == stack

\* lines 538-540: vm.try(this.children, null)
BlockOpcode_evaluate(stack, kids) == try(stack, kids, NoHandler)

\* lines 548-550: vm.try(this.children, this)
TryOpcode_evaluate(stack, opcode, kids) == try(stack, kids, opcode)

\* lines 452-459 for a BlockOpcode
EvaluateBlock ==
  /\ Running
  /\ Fetched.opcode # Undefined
  /\ KindOf(Fetched.opcode) = "block"
  /\ evalLog' = Append(evalLog, Fetched.opcode)
  /\ frameStack' = BlockOpcode_evaluate(Advanced, ChildrenOf(Fetched.opcode))
  /\ ForgetPass
  /\ ListQuiet
  /\ UNCHANGED <<refVars, keyVars, build, program, failing, vmState, raised, vmError>>

\* lines 452-459 for a TryOpcode or a ListItemOpcode
EvaluateTry ==
  /\ Running
  /\ Fetched.opcode # Undefined
  /\ KindOf(Fetched.opcode) = "try"
  /\ evalLog' = Append(evalLog, Fetched.opcode)
  /\ frameStack' = TryOpcode_evaluate(Advanced, Fetched.opcode, ChildrenOf(Fetched.opcode))
  /\ ForgetPass
  /\ ListQuiet
  /\ UNCHANGED <<refVars, keyVars, build, program, failing, vmState, raised, vmError>>

\* destroyChildren of destroyables: the resources of the opcodes below the
\* block, at any depth, are released
RECURSIVE Below(_, _)
Below(kids, ops) ==
  IF ops = <<>> THEN {}
  ELSE {Head(ops)} \cup Below(kids, MapGet(kids, Head(ops), <<>>)) \cup Below(kids, Tail(ops))

destroyChildren(prog, opcode) ==
  [prog EXCEPT !.destroyed = @ \cup Below(prog.kids, prog.kids[opcode])]

\* the opcodes that rendering the block again creates: k new objects
FreshOpcodes(prog, k) == [i \in 1..k |-> SetMax(DOMAIN prog.kind) + i]

\* vm.updateWith(this): the block is appended to the new list `updating`,
\* which in the linked build sets the block's own prev and next
updateWith(prog, b, opcode) ==
  IF b = "linked"
  THEN [prog EXCEPT !.prev[opcode] = NoOpcode, !.next[opcode] = NoOpcode]
  ELSE prog

\* vm.pushUpdating(children) and the render: the new opcodes are appended to
\* the block's children
pushUpdating(prog, opcode, fresh) ==
  [prog EXCEPT !.kids[opcode] = fresh,
               !.kind = [i \in {fresh[j] : j \in 1..Len(fresh)} |-> "op"] @@ @,
               !.prev = [i \in {fresh[j] : j \in 1..Len(fresh)} |-> PrevOf(fresh, IndexOf(fresh, i))] @@ @,
               !.next = [i \in {fresh[j] : j \in 1..Len(fresh)} |-> NextOf(fresh, IndexOf(fresh, i))] @@ @]

handleException_NoRestore(prog, b, opcode, fresh) ==
  pushUpdating(updateWith([destroyChildren(prog, opcode) EXCEPT !.kids[opcode] = <<>>], b, opcode),
               opcode, fresh)

\* modifiers.ts lines 552-570 and reference.ts lines 261-282: the children
\* are destroyed and emptied, the block is rendered again, and the linked
\* build puts back the prev and next it read at line 262
handleException(prog, b, opcode, fresh) ==
  [pushUpdating(updateWith([destroyChildren(prog, opcode) EXCEPT !.kids[opcode] = <<>>], b, opcode),
                opcode, fresh)
     EXCEPT !.prev[opcode] = prog.prev[opcode], !.next[opcode] = prog.next[opcode]]

\* lines 758-762: a frame without a handler does nothing; the handler given
\* to execute belongs to the caller
UpdatingVMFrame_handleException(prog, b, f, fresh) ==
  IF f.exceptionHandler \in DOMAIN prog.kids
  THEN handleException(prog, b, f.exceptionHandler, fresh)
  ELSE prog

\* lines 452-459 for an opcode whose evaluate calls vm.throw(), lines 480-483
throw ==
  /\ Running
  /\ Fetched.opcode # Undefined
  /\ KindOf(Fetched.opcode) = "op"
  /\ evalLog' = Append(evalLog, Fetched.opcode)
  /\ \E k \in 0..MaxFresh :
       /\ Cardinality(DOMAIN program.kind) + k <= NumNodes + MaxFresh
       /\ program' = UpdatingVMFrame_handleException(program, build, Fetched.frame,
                                                     FreshOpcodes(program, k))
  /\ frameStack' = pop(Advanced)
  /\ ForgetPass
  /\ ListQuiet
  /\ UNCHANGED <<refVars, keyVars, build, failing, vmState, raised, vmError>>

Current ==
  [children |-> children, opcodes |-> opcodes, opcodeMap |-> opcodeMap, marker |-> marker,
   dom |-> dom, nextOpcode |-> nextOpcode, destroyed |-> destroyed,
   deletedKeys |-> deletedKeys, script |-> <<>>,
   error |-> "none", currentOpcodeIndex |-> 0,
   it |-> _iterator, IDENTITIES |-> IDENTITIES, allocs |-> allocs, passNew |-> <<>>,
   trace |-> <<>>, failing |-> failing]

PassOld == [i \in 1..Len(children) |-> [opcode |-> children[i], key |-> opcodes[children[i]].key]]

\* lines 452-465 for the list block: ListBlockOpcode.evaluate, lines 627-647
evaluate ==
  /\ Running
  /\ Fetched.opcode = ListNode
  /\ phase' = "evaluated"
  /\ evalLog' = Append(evalLog, ListNode)
  /\ \E st \in {Collect(ListBlockOpcode_evaluate(Current))} :
         /\ children' = st.children
         /\ opcodes' = st.opcodes
         /\ opcodeMap' = st.opcodeMap
         /\ marker' = st.marker
         /\ dom' = st.dom
         /\ nextOpcode' = st.nextOpcode
         /\ destroyed' = st.destroyed
         /\ deletedKeys' = st.deletedKeys
         /\ script' = st.script
         /\ syncError' = st.error
         /\ _iterator' = st.it
         /\ IDENTITIES' = st.IDENTITIES
         /\ allocs' = st.allocs
         /\ passNew' = st.passNew
         /\ trace' = st.trace
         /\ IF st.error = "none"
            THEN /\ frameStack' = BlockOpcode_evaluate(Advanced, st.children)
                 /\ UNCHANGED <<trackStack, vmState, raised, vmError>>
            ELSE /\ frameStack' = Advanced
                 /\ raised' = st.error
                 /\ Catch(st.error, trackStack)
  /\ passOld' = PassOld
  /\ RefQuiet
  /\ UNCHANGED <<produced, issued, build, program, failing>>

\* the arrays given to the list block hold pairwise different elements
ListArrays == {arr \in Arrays(1..NumKeys, MaxItems) : \A i, j \in DOMAIN arr : i # j => arr[i] # arr[j]}

\* the item opcodes that a pass over arr creates
Fresh(arr) == {i \in DOMAIN arr : RawKey(arr[i]) \notin DOMAIN opcodeMap}

\* an update starts with the collection having changed: the iterable
\* reference is read and computes a new iterator
ComputeList ==
  /\ phase = "idle"
  /\ vmState = "idle"
  /\ phase' = "computed"
  /\ \E arr \in ListArrays :
       /\ nextOpcode - 1 + Cardinality(Fresh(arr)) <= MaxOpcodes
       /\ compute(arr)
  /\ UNCHANGED <<refVars, children, opcodes, opcodeMap, marker, dom, nextOpcode, destroyed, deletedKeys,
                 passOld, passNew, script, trace, syncError, vmVars>>

\* the update is over: execute has returned or thrown, and the next update
\* runs on a new UpdatingVM
EndUpdate ==
  /\ vmState \in {"returned", "thrown"}
  /\ vmState' = "idle"
  /\ frameStack' = <<>>
  /\ evalLog' = <<>>
  /\ raised' = "none"
  /\ vmError' = "none"
  /\ ForgetPass
  /\ ListQuiet
  /\ UNCHANGED <<refVars, keyVars, build, program, failing>>

VMInit ==
  /\ frameStack = <<>>
  /\ vmState = "idle"
  /\ evalLog = <<>>
  /\ raised = "none"
  /\ vmError = "none"

ListInit ==
  /\ children = <<>>
  /\ opcodes = EmptyMap
  /\ opcodeMap = EmptyMap
  /\ marker = FALSE
  /\ dom = <<>>
  /\ nextOpcode = 1
  /\ destroyed = {}
  /\ deletedKeys = {}
  /\ passOld = <<>>
  /\ passNew = <<>>
  /\ script = <<>>
  /\ trace = <<>>
  /\ syncError = "none"
  /\ phase = "idle"

RefIdle == RefInit /\ cellVal = [c \in Cells |-> 0]

vars == <<refVars, keyVars, listVars, vmVars>>

\* the array build running the list block, every item block rendering
ListVM == VMInit /\ build = "array" /\ program = ListProgram /\ failing = {}

Init == RefInit /\ KeysInit /\ ListInit /\ ListVM

NextRef == value \/ WriteCell \/ BeginTrackFrame \/ EndTrackFrame

SpecRef == Init /\ [][NextRef]_vars

\* a ReferenceCache over the reference, which nothing else reads
NextCache == NewReferenceCache \/ ReferenceCache_revalidate \/ WriteCell

SpecCache == Init /\ [][NextCache]_vars

InitKeys == RefIdle /\ KeysInit /\ ListInit /\ ListVM

NextKeys == ComputeKeys \/ next

SpecKeys == InitKeys /\ [][NextKeys]_vars

\* a caller that reads the iterable reference again only when the pass
\* over the previous iterator is over
ComputeDone == isDone /\ ComputeKeys

NextIter == ComputeDone \/ next

SpecIter == InitKeys /\ [][NextIter]_vars

InitSync == RefIdle /\ KeysInit /\ ListInit /\ ListVM

NextSync == ComputeList \/ execute \/ evaluate \/ EvaluateTry \/ PopFrame \/ Return \/ EndUpdate

SpecSync == InitSync /\ [][NextSync]_vars

InitVM ==
  /\ RefIdle /\ KeysInit /\ ListInit /\ VMInit
  /\ build \in {"array", "linked"}
  /\ program \in Programs
  /\ failing = {}

NextVM == execute \/ EvaluateOpcode \/ EvaluateBlock \/ EvaluateTry \/ PopFrame \/ Return \/ EndUpdate

SpecVM == InitVM /\ [][NextVM]_vars

NextReuse == NextVM \/ executeAgain

\* the opcode trees when a caller uses one UpdatingVM for several executes
SpecReuse == InitVM /\ [][NextReuse]_vars

NextThrow == NextVM \/ throw

\* the opcode trees when evaluates call vm.throw()
SpecThrow == InitVM /\ [][NextThrow]_vars

\* execute is one synchronous loop: while it is running, its next iteration
\* is taken
Iteration == EvaluateOpcode \/ EvaluateBlock \/ EvaluateTry \/ PopFrame \/ Return

SpecVMFair == InitVM /\ [][NextVM]_vars /\ WF_vars(Iteration)

\* the list block when the blocks of some items throw while they are rendered
InitAbort ==
  /\ RefIdle /\ KeysInit /\ ListInit /\ VMInit
  /\ build = "array"
  /\ program = ListProgram
  /\ failing \in SUBSET (1..NumKeys) \ {{}}

SpecAbort == InitAbort /\ [][NextSync]_vars

\* lines 613-621: a list block constructed with the item opcodes of a first
\* render of arr; initializeChild (lines 623-625) was called for the
\* children at the positions in reg
Constructed(arr, reg) ==
  /\ children = [i \in 1..Len(arr) |-> i]
  /\ opcodes = [i \in 1..Len(arr) |-> ListItemOpcode(RawKey(arr[i]), i - 1, arr[i])]
  /\ opcodeMap = [k \in {RawKey(arr[i]) : i \in reg} |-> CHOOSE i \in reg : RawKey(arr[i]) = k]
  /\ dom = [i \in 1..Len(arr) |-> i]
  /\ nextOpcode = Len(arr) + 1
  /\ marker = FALSE
  /\ destroyed = {}
  /\ deletedKeys = {}
  /\ passOld = <<>>
  /\ passNew = <<>>
  /\ script = <<>>
  /\ trace = <<>>
  /\ syncError = "none"
  /\ phase = "idle"

InitCtor ==
  /\ RefIdle /\ KeysInit /\ ListVM
  /\ \E arr \in ListArrays : \E reg \in SUBSET (1..Len(arr)) : Constructed(arr, reg)

SpecCtor == InitCtor /\ [][NextSync]_vars

\* a list block constructed with the item opcodes of a first render, each
\* of them registered by initializeChild
InitReg ==
  /\ RefIdle /\ KeysInit /\ ListVM
  /\ \E arr \in ListArrays : Constructed(arr, 1..Len(arr))

SpecReg == InitReg /\ [][NextSync]_vars

(***************************************************************************)
(* Properties of CachedReference                                           *)
(***************************************************************************)
IsValid == lastRevision # NoRevision /\ validateTag(tag, lastRevision)

\* C1: a value() call made while a previous computation exists and its tag
\* validates against lastRevision returns the identical stored value and
\* does not invoke compute(); the stored value is left in place, so the
\* same holds for every further call until a tag advances.
C1_ValidReturnsCached ==
  [][(calls' = calls + 1 /\ IsValid)
       => /\ lastCall'.kind = "hit"
          /\ lastCall'.ret = lastValue
          /\ lastCall'.computes = 0
          /\ computeCount' = computeCount
          /\ lastValue' = lastValue
          /\ IsValid']_vars

C1_Witness ==
  /\ lastCall.kind = "hit"
  /\ calls >= 3
  /\ computeCount = 1
  /\ lastCall.ret = lastValue
  /\ lastValue.id = 1

\* C2: a value() call made with no prior computation, or with a cached tag
\* that fails validateTag against lastRevision, invokes compute() exactly
\* once; when compute() returns, value() returns that fresh result and
\* stores the result, the tag tracked during compute() and valueForTag of
\* that tag, so that the reference is valid right after the call.
C2_InvalidRecomputes ==
  [][(calls' = calls + 1 /\ ~IsValid)
       => /\ computeCount' = computeCount + 1
          /\ lastCall'.computes = 1
          /\ lastCall'.kind \in {"miss", "throw"}
          /\ lastCall'.kind = "miss"
               => /\ lastCall'.ret = lastValue'
                  /\ lastValue'.data = ComputeData
                  /\ lastValue'.id > computeCount
                  /\ tag' = combine({{c} : c \in ComputeReads})
                  /\ lastRevision' = valueForTag(tag')
                  /\ IsValid']_vars

C2_Witness ==
  /\ lastCall.kind = "miss"
  /\ computeCount = 2
  /\ lastValue.id = 2
  /\ tag = {1, 2}
  /\ lastRevision = valueForTag(tag)
  /\ lastRevision > INITIAL

\* C3: every value() call that returns normally calls consumeTag exactly
\* once, on the reference's current tag (the recomputed tag on a miss, the
\* cached tag on a hit), so an open enclosing tracking frame contains that
\* tag afterwards.
C3_AlwaysConsumes ==
  [][(calls' = calls + 1 /\ lastCall'.kind # "throw")
       => /\ lastCall'.consumed = <<tag'>>
          /\ lastCall'.kind = "hit" => tag' = tag
          /\ trackStack' = consumeTag(trackStack, tag')
          /\ trackStack # <<>> => tag' \subseteq Head(trackStack')]_vars

C3_Witness ==
  /\ lastCall.kind = "hit"
  /\ trackStack # <<>>
  /\ tag = {1, 2}
  /\ lastCall.consumed = <<tag>>
  /\ Head(trackStack) = tag

\* C4: when compute() throws, value() ends with the exception and installs
\* nothing: the reference holds no valid baseline afterwards (no revision,
\* or a tag that does not validate against it), and the next value() call
\* invokes compute() again instead of returning a stored value.
C4_ThrowInstallsNothing ==
  /\ [](lastCall.kind = "throw" => ~IsValid)
  /\ [][(calls' = calls + 1 /\ lastCall'.kind = "throw")
          => UNCHANGED <<tag, lastRevision, lastValue, trackStack>>]_vars
  /\ [][(calls' = calls + 1 /\ lastCall.kind = "throw")
          => (computeCount' = computeCount + 1 /\ lastCall'.kind # "hit")]_vars

C4_Witness ==
  /\ lastCall.kind = "throw"
  /\ lastValue.id = 1
  /\ lastRevision # NoRevision
  /\ computeCount = 2

(***************************************************************************)
(* Properties of the keys of iterated items                                *)
(***************************************************************************)
Values(items) == [i \in 1..Len(items) |-> items[i].value]
Keys(items) == [i \in 1..Len(items) |-> items[i].key]
Before(items, i) == SubSeq(items, 1, i - 1)

\* C9: within one pass the first occurrence of a raw key gets the raw key
\* itself and its Nth further occurrence gets the one identity object that
\* exists for (raw key, N); counting restarts with every compute(), so
\* [a,b,a,a] yields [a, b, a#1, a#2] and a pass over [a,a,b,a] yields at
\* positions 0 and 1 the keys a and a#1 that [a,b,a,a] has at 0 and 2.
C9_OccurrenceKeys ==
  /\ \A i \in 1..Len(produced) :
        LET v == produced[i].value
            n == Occurrence(Before(produced, i), v)
        IN  produced[i].key = IF n = 0 THEN RawKey(v) ELSE IdentityObject(v, n, 1)
  /\ Values(produced) = <<1, 2, 1, 1>>
       => Keys(produced) = <<RawKey(1), RawKey(2), IdentityObject(1, 1, 1), IdentityObject(1, 2, 1)>>
  /\ Values(produced) = <<1, 1, 2, 1>>
       => /\ produced[1].key = RawKey(1)
          /\ produced[2].key = IdentityObject(1, 1, 1)

C9_Witness ==
  /\ _iterator.iterator = <<1, 1, 2, 1>>
  /\ Values(produced) = <<1, 1>>
  /\ <<1, 2>> \in DOMAIN IDENTITIES
  /\ produced[2].key = IDENTITIES[<<1, 1>>]
  /\ [value |-> 1, n |-> 1, key |-> produced[2].key] \in issued

\* C10: the keys returned within one pass are pairwise distinct, whatever
\* raw keys repeat; and two items returned in any passes got the same key
\* exactly when they hold the same raw key in the same occurrence slot.
C10_KeysDistinct ==
  /\ \A i, j \in 1..Len(produced) : i # j => produced[i].key # produced[j].key
  /\ \A x, y \in issued : (x.key = y.key) <=> (x.value = y.value /\ x.n = y.n)

C10_Witness ==
  /\ Values(produced) = <<1, 1, 1>>
  /\ isDone
  /\ Cardinality({produced[i].key : i \in 1..3}) = 3
  /\ \E x \in issued : x.value = 2 /\ x.n = 1

(***************************************************************************)
(* Properties of the reconciliation pass                                   *)
(***************************************************************************)
PassRan == script # <<>> /\ script[1].op = "marker"
PassDone == phase = "evaluated" /\ PassRan /\ syncError = "none"

OldKeys == {passOld[i].key : i \in 1..Len(passOld)}
NewKeys == {passNew[i].key : i \in 1..Len(passNew)}
OldOpcodes == {passOld[i].opcode : i \in 1..Len(passOld)}
ChildSet == {children[i] : i \in 1..Len(children)}
OldOpcodeOf(k) == (CHOOSE i \in 1..Len(passOld) : passOld[i].key = k)
Distinct(seq) == \A i, j \in 1..Len(seq) : i # j => seq[i] # seq[j]

Count(op, k) == Cardinality({i \in 1..Len(script) : script[i].op = op /\ script[i].key = k})
Edits == SelectSeq(script, LAMBDA e : e.op \in {"retain", "move", "insert", "delete"})

C7_ChildrenFollowNewOrder ==
  (PassDone /\ Distinct(Keys(passOld)) /\ Distinct(Keys(passNew)))
    => /\ Len(children) = Len(passNew)
       /\ \A i \in 1..Len(children) :
            /\ opcodes[children[i]].key = passNew[i].key
            /\ opcodes[children[i]].memo = passNew[i].memo
            /\ opcodes[children[i]].value = passNew[i].value
       /\ Distinct(children)
       /\ dom = children

C7_Witness ==
  /\ PassDone
  /\ Len(children) = 3
  /\ Len(passOld) = 2
  /\ dom = children
  /\ \E e \in 1..Len(script) :
        script[e].op = "insert" /\ script[e].before = passOld[1].opcode
  /\ \A j \in 1..2 : passOld[j].opcode \in ChildSet

Boundaries ==
  {frameStack[i].exceptionHandler : i \in 1..Len(frameStack)} \ {NoHandler, Caller}

\* C11: when an opcode below a try-boundary B throws during evaluate, the VM
\* unwinds to B's frame, B handles the exception and execute returns
\* normally: execute never ends with an exception while the frame of a
\* try-boundary is on the stack.
C11_ExceptionIsolation ==
  (raised # "none" /\ Boundaries # {}) => vmState # "thrown"

\* C12: when an evaluate throws and no frame on the stack belongs to a
\* try-boundary, execute ends with that same exception and the tracking
\* state has been reset: no tracking frame is left open.
C12_UnhandledResetsTracking ==
  (vmState = "thrown" /\ Boundaries = {})
    => /\ vmError = raised
       /\ trackStack = resetTracking

\* C13: when an exception leaves execute, the list block is as it was before
\* the call: same children, same key map, same seen and retained flags, no
\* marker.
C13_NoPartialCorruption ==
  [][(vmState = "running" /\ vmState' = "thrown")
       => /\ children' = children
          /\ opcodeMap' = opcodeMap
          /\ marker' = marker
          /\ \A o \in DOMAIN opcodes :
                /\ o \in DOMAIN opcodes'
                /\ opcodes'[o].seen = opcodes[o].seen
                /\ opcodes'[o].retained = opcodes[o].retained]_vars

RECURSIVE PreOrder(_)
PreOrder(ops) ==
  IF ops = <<>> THEN <<>>
  ELSE <<Head(ops)>> \o PreOrder(ChildrenOf(Head(ops))) \o PreOrder(Tail(ops))

IsPrefix(a, b) == Len(a) <= Len(b) /\ a = SubSeq(b, 1, Len(a))

\* C14: in an execute that raises no exception the opcodes are evaluated in
\* depth-first pre-order: what has been evaluated so far is always a prefix
\* of the pre-order listing of the tree (a block, then its children in
\* order, then its next sibling), and when execute returns it is the whole
\* listing, so every opcode was evaluated exactly once.
C14_DepthFirstPreOrder ==
  /\ (vmState = "running" /\ raised = "none") => IsPrefix(evalLog, PreOrder(program.root))
  /\ vmState = "returned" => evalLog = PreOrder(program.root)

C14_Witness ==
  /\ vmState = "returned"
  /\ Len(evalLog) = NumNodes
  /\ \E i \in 1..(Len(evalLog) - 1) : evalLog[i] > evalLog[i + 1]
  /\ \E n \in Nodes : Len(ChildrenOf(n)) >= 1 /\ program.kind[n] = "block"

Exhausted(f) == f.current >= Len(f.ops)

\* C15: execute on a finite opcode tree terminates; a frame is popped
\* exactly when its opcode sequence is exhausted (a running VM whose top
\* frame is exhausted pops it in its next iteration, and no other frame is
\* ever popped), and when execute returns the frame stack is empty.
C15_Terminates ==
  /\ (vmState = "running") ~> (vmState \in {"returned", "thrown"})
  /\ [](vmState = "returned" => frameStack = <<>>)
  /\ [][(vmState = "running" /\ vmState' = "running" /\ frameStack # <<>>)
         => IF Exhausted(frame(frameStack))
            THEN frameStack' = pop(frameStack)
            ELSE Len(frameStack') >= Len(frameStack)]_vars

C15_Witness ==
  /\ vmState = "returned"
  /\ frameStack = <<>>
  /\ raised = "none"
  /\ Len(evalLog) = NumNodes
  /\ \E n \in Nodes : Len(ChildrenOf(n)) >= 2

Inserted == {script[i].opcode : i \in {j \in 1..Len(script) : script[j].op = "insert"}}
Deleted == {script[i].opcode : i \in {j \in 1..Len(script) : script[j].op = "delete"}}

\* C16: when the list block is evaluated with a pass due, the pass is over
\* (iterator consumed, marker gone) when the frame for its children is
\* pushed, that frame holds the children as the pass left them (the
\* inserted opcodes, none of the deleted ones, in the order of the new
\* items), and the item opcodes are then evaluated in that order, none
\* before the pass.
C16_SyncBeforeChildren ==
  /\ [](PassDone
          => /\ frame(frameStack) = UpdatingVMFrame(children, NoHandler)
             /\ _iterator = NoIterator
             /\ marker = FALSE
             /\ Inserted \subseteq ChildSet
             /\ Deleted \cap ChildSet = {}
             /\ Keys([i \in 1..Len(children) |-> opcodes[children[i]]]) = Keys(passNew))
  /\ []((vmState \in {"running", "returned"} /\ evalLog # <<>>)
          => /\ Head(evalLog) = ListNode
             /\ IsPrefix(Tail(evalLog), children)
             /\ phase # "computed"
             /\ vmState = "returned" => Tail(evalLog) = children)

C16_Witness ==
  /\ vmState = "returned"
  /\ evalLog = <<ListNode>> \o children
  /\ Len(children) >= 2
  /\ destroyed # {}
  /\ \E i \in 1..(Len(children) - 1) : children[i] > children[i + 1]

Items == 1..(Len(trace) - 1)

\* the old opcode at the cursor, and the node that stands for "before it"
CursorOpcode(b) == At([i \in 1..Len(passOld) |-> passOld[i].opcode], b.currentOpcodeIndex)
Reference(b) == IF CursorOpcode(b) = Undefined THEN MarkerNode ELSE CursorOpcode(b)

ImmediatelyBefore(nodes, node, reference) ==
  \E i \in 1..(Len(nodes) - 1) : nodes[i] = node /\ nodes[i + 1] = reference

\* C18: whenever the old opcode at the cursor has the key of the next new
\* item, that opcode is retained in place: it is appended to the new
\* children with its value and memo set to the item's, nothing is moved or
\* created, and the cursor advances by one.
C18_FastPath ==
  \A i \in Items :
    LET b == trace[i]
        a == trace[i + 1]
        item == passNew[i]
        opcode == CursorOpcode(b)
    IN  (opcode # Undefined /\ b.opcodes[opcode].key = item.key)
          => /\ a.children = Append(b.children, opcode)
             /\ a.opcodes[opcode].value = item.value
             /\ a.opcodes[opcode].memo = item.memo
             /\ a.dom = b.dom
             /\ a.nextOpcode = b.nextOpcode
             /\ a.currentOpcodeIndex = b.currentOpcodeIndex + 1

\* C19: when the key of the next new item is in the key map and its opcode
\* is marked seen, the opcode's region is moved to immediately before the
\* node of the old opcode at the cursor (before the marker when the cursor
\* is past the end), its value and memo become the item's, and it is
\* appended to the new children; the opcode is not destroyed, no opcode is
\* created, and the key map and the cursor stay as they are.
C19_Move ==
  \A i \in Items :
    LET b == trace[i]
        a == trace[i + 1]
        item == passNew[i]
    IN  (item.key \in DOMAIN b.opcodeMap /\ b.opcodes[b.opcodeMap[item.key]].seen)
          => LET o == b.opcodeMap[item.key]
             IN  /\ Remove(a.dom, o) = Remove(b.dom, o)
                 /\ ImmediatelyBefore(a.dom, o, Reference(b))
                 /\ a.opcodes[o].value = item.value
                 /\ a.opcodes[o].memo = item.memo
                 /\ a.children = Append(b.children, o)
                 /\ o \notin a.destroyed
                 /\ a.nextOpcode = b.nextOpcode
                 /\ DOMAIN a.opcodes = DOMAIN b.opcodes
                 /\ a.opcodeMap = b.opcodeMap
                 /\ a.currentOpcodeIndex = b.currentOpcodeIndex

C19_Witness ==
  /\ phase = "evaluated"
  /\ syncError = "none"
  /\ \E i \in 1..Len(script) :
       /\ script[i].op = "move"
       /\ script[i].before # MarkerNode
       /\ ImmediatelyBefore(dom, script[i].opcode, script[i].before)
  /\ Len(passNew) = 3

\* C20: when the key of the next new item is not in the key map, a new
\* opcode is created and rendered immediately before the node of the old
\* opcode at the cursor, or immediately before the marker when there is no
\* such opcode; it is registered in the key map under the item's key and
\* appended to the new children, and the cursor stays as it is.
C20_Insert ==
  \A i \in Items :
    LET b == trace[i]
        a == trace[i + 1]
        item == passNew[i]
    IN  item.key \notin DOMAIN b.opcodeMap
          => LET o == b.nextOpcode
             IN  /\ o \notin DOMAIN b.opcodes
                 /\ o \in DOMAIN a.opcodes
                 /\ a.opcodes[o].key = item.key
                 /\ a.opcodes[o].value = item.value
                 /\ Remove(a.dom, o) = b.dom
                 /\ ImmediatelyBefore(a.dom, o, Reference(b))
                 /\ a.opcodeMap = (item.key :> o) @@ b.opcodeMap
                 /\ DOMAIN a.opcodeMap = DOMAIN b.opcodeMap \cup {item.key}
                 /\ a.children = Append(b.children, o)
                 /\ a.currentOpcodeIndex = b.currentOpcodeIndex

C20_Witness ==
  /\ phase = "evaluated"
  /\ syncError = "none"
  /\ \E i \in 1..Len(script) : script[i].op = "insert" /\ script[i].before # MarkerNode
  /\ \E i \in 1..Len(script) : script[i].op = "insert" /\ script[i].before = MarkerNode
  /\ \E i \in 1..Len(script) : script[i].op = "retain"

(***************************************************************************)
(* Properties of the sweep that ends the reconciliation pass               *)
(***************************************************************************)
Retained == {script[i].opcode : i \in {j \in 1..Len(script) : script[j].op \in {"retain", "move"}}}
Skipped == {script[i].opcode : i \in {j \in 1..Len(script) : script[j].op = "skip"}}
Deletes(o) == {i \in 1..Len(script) : script[i].op = "delete" /\ script[i].opcode = o}
NodeSet == {dom[i] : i \in 1..Len(dom)}

\* C21: in a completed pass every old opcode that was neither retained nor
\* moved is deleted exactly once, after the last new item was handled: it
\* was not destroyed before and is destroyed now, its region is out of the
\* DOM and its key is out of the key map; this includes opcodes that the
\* forward scan skipped and marked seen.  No retained, moved or inserted
\* opcode is destroyed.  Old [a] against new [] is exactly one delete.
C21_Delete ==
  PassDone
    => /\ \A j \in 1..Len(passOld) :
            LET o == passOld[j].opcode
            IN  IF o \in Retained
                THEN o \notin destroyed /\ Deletes(o) = {}
                ELSE /\ Cardinality(Deletes(o)) = 1
                     /\ o \notin trace[1].destroyed
                     /\ o \in destroyed
                     /\ o \notin NodeSet
                     /\ passOld[j].key \notin DOMAIN opcodeMap
                     /\ \A d \in Deletes(o) : \A i \in 1..Len(script) :
                          script[i].op \in {"retain", "move", "insert", "skip"} => i < d
       /\ Inserted \cap destroyed = {}
       /\ destroyed = trace[1].destroyed \cup (OldOpcodes \ Retained)
       /\ (Len(passOld) = 1 /\ passNew = <<>>)
            => Edits = <<Entry("delete", passOld[1].key, passOld[1].opcode, Undefined)>>

C21_Witness ==
  /\ PassDone
  /\ Skipped \cap Deleted # {}
  /\ Skipped \cap Retained # {}
  /\ Len(passOld) = 3
  /\ Len(children) = 2

\* C22: the retained and seen flags last for one pass: after every
\* completed pass, and when the next pass starts, every opcode among the
\* children has retained = FALSE and seen = FALSE.
C22_FlagsScoped ==
  (PassDone \/ phase = "computed")
    => \A i \in 1..Len(children) :
         /\ opcodes[children[i]].retained = FALSE
         /\ opcodes[children[i]].seen = FALSE

C22_Witness ==
  /\ PassDone
  /\ Len(children) = 3
  /\ \E i \in 1..Len(script) : script[i].op = "insert"
  /\ \E i \in 1..Len(trace) : \E o \in ChildSet \cap OldOpcodes :
       /\ trace[i].opcodes[o].seen
       /\ trace[i].opcodes[o].retained
       /\ ~opcodes[o].seen
       /\ ~opcodes[o].retained

(***************************************************************************)
(* Properties of TryOpcode.handleException                                 *)
(***************************************************************************)
\* a step in which the evaluate of a child of try opcode n called vm.throw()
Thrown(n) ==
  /\ Running
  /\ frame(frameStack).exceptionHandler = n
  /\ evalLog' # evalLog
  /\ Len(frameStack') < Len(frameStack)

NodesOf(seq) == {seq[i] : i \in 1..Len(seq)}

\* C23: handleException on a try opcode destroys the opcodes below it, and
\* gives it children that are all new objects; the try opcode keeps its
\* place: the root sequence and the children of every other opcode are as
\* before, the try opcode's prev and next are as before, it is not
\* destroyed itself, and no opcode outside its old subtree changes its
\* kind, its links or its destroyed state.
C23_HandleException ==
  [][\A n \in DOMAIN program.kids :
       Thrown(n)
         => /\ Below(program.kids, program.kids[n]) \subseteq program'.destroyed
            /\ NodesOf(program'.kids[n]) \cap DOMAIN program.kind = {}
            /\ program'.root = program.root
            /\ \A m \in DOMAIN program.kids \ {n} : program'.kids[m] = program.kids[m]
            /\ program'.prev[n] = program.prev[n]
            /\ program'.next[n] = program.next[n]
            /\ n \notin program'.destroyed
            /\ program'.destroyed \ program.destroyed \subseteq Below(program.kids, program.kids[n])
            /\ \A m \in DOMAIN program.kind \ Below(program.kids, program.kids[n]) :
                 /\ program'.kind[m] = program.kind[m]
                 /\ program'.prev[m] = program.prev[m]
                 /\ program'.next[m] = program.next[m]]_vars

C23_Witness ==
  /\ build = "linked"
  /\ \E n \in DOMAIN program.kids :
       /\ program.kind[n] = "try"
       /\ program.kids[n] # <<>>
       /\ \A i \in 1..Len(program.kids[n]) : program.kids[n][i] > 100 + NumNodes
       /\ program.prev[n] # NoOpcode
       /\ n \notin program.destroyed
  /\ program.destroyed # {}

(***************************************************************************)
(* Properties of ReferenceCache                                            *)
(***************************************************************************)
\* C24: a revalidate call that returns gives NOT_MODIFIED exactly when the
\* value it read from the reference is the one that the previous
\* revalidate (or the constructor) read; otherwise it returns the value read
\* and stores it as lastValue.  A revalidate for which the reference did
\* not recompute returns NOT_MODIFIED, and isModified tells the two kinds
\* of result apart.
C24_Revalidate ==
  [][(cache'.n = cache.n + 1 /\ lastCall'.kind # "throw")
       => /\ (cache'.ret = NOT_MODIFIED) <=> (lastCall'.ret = cache.observed)
          /\ lastCall'.ret # cache.observed => cache'.ret = lastCall'.ret
          /\ cache'.lastValue = lastCall'.ret
          /\ isModified(cache'.ret) <=> (lastCall'.ret # cache.observed)
          /\ lastCall'.kind = "hit" => ~isModified(cache'.ret)]_vars

C24_Witness ==
  /\ cache.n = 2
  /\ cache.ret = NOT_MODIFIED
  /\ cache.lastValue.id = 2
  /\ lastCall.kind = "hit"
  /\ calls = 3

(***************************************************************************)
(* Properties of the key map                                               *)
(***************************************************************************)
\* C25: between passes the key map and the children match one to one: no
\* opcode is among the children twice, every child is the map's entry for
\* its own key, every entry of the map is a child, and no entry is a
\* destroyed opcode; after a completed pass the keys of the map are the
\* keys of the new items, so a key whose opcode was deleted is in the map
\* only if a later item brought it back with a new opcode.
C25_KeyMapConsistent ==
  /\ Distinct(children)
  /\ \A i \in 1..Len(children) :
       /\ opcodes[children[i]].key \in DOMAIN opcodeMap
       /\ opcodeMap[opcodes[children[i]].key] = children[i]
  /\ \A k \in DOMAIN opcodeMap :
       /\ opcodeMap[k] \in ChildSet
       /\ opcodeMap[k] \notin destroyed
       /\ opcodes[opcodeMap[k]].key = k
  /\ PassDone => DOMAIN opcodeMap = NewKeys

C25_Witness ==
  /\ PassDone
  /\ 1 \in OldOpcodes
  /\ nextOpcode = 4
  /\ Len(children) = 2
  /\ deletedKeys \cap DOMAIN opcodeMap # {}
  /\ \E i \in 1..Len(script) : script[i].op = "move"

(***************************************************************************)
(* Properties of the forward scan                                          *)
(***************************************************************************)
\* the 0-based index of opcode o among the old children
OldIndex(o) == (CHOOSE j \in 1..Len(passOld) : passOld[j].opcode = o) - 1

\* C26: sync never reads the key of an old child past the end of the old
\* children.  When the key of the next new item is in the key map and its
\* opcode is not marked seen, that opcode is an old child at or after the
\* cursor; the scan marks the old children from the cursor up to it seen
\* and no other, the opcode is retained, and the cursor ends one past it,
\* at most at the old children's length.
C26_ScanInBounds ==
  /\ syncError # "TypeError"
  /\ \A i \in Items :
       LET b == trace[i]
           a == trace[i + 1]
           item == passNew[i]
       IN  (item.key \in DOMAIN b.opcodeMap /\ ~b.opcodes[b.opcodeMap[item.key]].seen)
             => LET o == b.opcodeMap[item.key]
                IN  /\ o \in OldOpcodes
                    /\ b.currentOpcodeIndex <= OldIndex(o)
                    /\ OldIndex(o) < Len(passOld)
                    /\ a.currentOpcodeIndex = OldIndex(o) + 1
                    /\ a.children = Append(b.children, o)
                    /\ \A j \in 1..Len(passOld) :
                         LET p == passOld[j].opcode
                         IN  a.opcodes[p].seen
                               = (b.opcodes[p].seen
                                    \/ (b.currentOpcodeIndex <= j - 1 /\ j - 1 < OldIndex(o)))

C26_Witness ==
  /\ PassDone
  /\ Len(passOld) = 3
  /\ Len(script) >= 4
  /\ script[2].op = "skip" /\ script[2].opcode = passOld[1].opcode
  /\ script[3].op = "skip" /\ script[3].opcode = passOld[2].opcode
  /\ script[4] = Entry("retain", passOld[3].key, passOld[3].opcode, Undefined)

(***************************************************************************)
(* Properties of an UpdatingVM used again                                  *)
(***************************************************************************)
\* C27: when execute has exited, by return or by an exception, the frame
\* stack is empty; hence an execute called later on the same VM evaluates
\* only the opcodes of the tree it was given, each once and in pre-order,
\* and nothing that an earlier call left on the stack.
C27_StackEmptyOnExit ==
  /\ vmState \in {"returned", "thrown"} => frameStack = <<>>
  /\ (vmState = "running" /\ raised = "none") => IsPrefix(evalLog, PreOrder(program.root))
  /\ vmState = "returned" => evalLog = PreOrder(program.root)

(***************************************************************************)
(* Properties of ArrayIterator                                             *)
(***************************************************************************)
\* C28: an ArrayIterator over an array of length n yields the n elements in
\* index order, each with its index as memo and with the key that one call
\* of keyFor gives for it, and after them null on every call, leaving the
\* iterator as it is; isEmpty() holds exactly when n = 0.  The
\* IterableReference drops its iterator exactly when next() gave that null,
\* and isDone() holds from then on.
C28_ArrayIterator ==
  /\ [](_iterator # NoIterator
          => LET arr == _iterator.iterator
                 r == ArrayIterator_next(_iterator, IDENTITIES, allocs)
             IN  /\ Len(produced) <= Len(arr)
                 /\ \A i \in 1..Len(produced) :
                      produced[i].value = arr[i] /\ produced[i].memo = i - 1
                 /\ ArrayIterator_isEmpty(_iterator) <=> (Len(arr) = 0)
                 /\ \A v \in RawKeys : MapGet(_iterator.seen, v, 0) = Occurrence(produced, v)
                 /\ Len(produced) < Len(arr)
                      => /\ r.item # NoItem
                         /\ r.item.value = arr[Len(produced) + 1]
                         /\ r.item.memo = Len(produced)
                         /\ r.item.key = uniqueKeyFor(_iterator.seen, IDENTITIES, allocs,
                                                      arr[Len(produced) + 1], Len(produced)).key
                 /\ Len(produced) = Len(arr)
                      => /\ r.item = NoItem
                         /\ r.it = _iterator
                         /\ IterableReference_next(_iterator, IDENTITIES, allocs).it = NoIterator)
  /\ [][(_iterator # NoIterator /\ _iterator' = NoIterator)
          => /\ Len(produced) = Len(_iterator.iterator)
             /\ produced' = produced
             /\ isDone']_vars

C28_Witness ==
  /\ isDone
  /\ Values(produced) = <<1, 2, 2, 1>>
  /\ produced[4].memo = 3
  /\ produced[1].memo = 0

====
